---- MODULE Spec2Model ----
(***************************************************************************)
(* Model of src/ntfs/filter.rs of transit_model: the Filter value, the     *)
(* FilterProcessor (apply, union, finalize), updated_stop_time_attributes  *)
(* and the entry point filter().                                           *)
(*                                                                         *)
(* A CollectionWithId<T> is a sequence of records with an `id` field; the  *)
(* Idx of an object is its position counted from zero.  An IdxSet is a set *)
(* of such positions.  Option<String> is <<>> (None) or <<s>> (Some(s)).   *)
(* A HashMap / HashSet is iterated in an arbitrary order: every loop over  *)
(* one picks its next element nondeterministically.                        *)
(***************************************************************************)
EXTENDS Integers, Sequences, FiniteSets, TLC

VARIABLES
    model,          \* the Model handed to filter()
    filter,         \* the Filter handed to filter()
    input_model,    \* the Model as it was when filter() was called
    pc,             \* position in filter() / apply() / finalize()
    calendars,      \* FilterProcessor.calendars
    vjs,            \* FilterProcessor.vjs
    calendars_used, \* FilterProcessor.calendars_used
    vjs_used,       \* FilterProcessor.vjs_used
    todo_types,     \* object types the outer loop of apply has not reached
    object_type,    \* object type of the current iteration (<<>> before)
    todo_props,     \* properties the inner loop has not reached
    collection,     \* the local `collection` of the current iteration
    ids,            \* the local `ids` of the current iteration
    collections,    \* the local `collections` of finalize (<<>> before)
    result          \* what filter() returns

vars == <<model, filter, input_model, pc, calendars, vjs, calendars_used,
          vjs_used, todo_types, object_type, todo_props, collection, ids,
          collections, result>>

(***************************************************************************)
(* Bounds of the checked instances.                                        *)
(***************************************************************************)
MaxVJ == 2
MaxAttrVJ == 3
MaxSeq == 2

(***************************************************************************)
(* Option<String>                                                          *)
(***************************************************************************)
None == <<>>
Some(s) == <<s>>
UnwrapOr(o, d) == IF o = None THEN d ELSE o[1]

(***************************************************************************)
(* CollectionWithId                                                        *)
(***************************************************************************)
Ids(coll) == {coll[i].id : i \in 1..Len(coll)}
Contains(coll, id) == \E i \in 1..Len(coll) : coll[i].id = id
GetIdx(coll, id) == (CHOOSE i \in 1..Len(coll) : coll[i].id = id) - 1
RetainIdxs(coll, old, used) ==
    SelectSeq(coll, LAMBDA o : GetIdx(old, o.id) \in used)

(***************************************************************************)
(* Filter                                                                  *)
(***************************************************************************)
Actions == {"Extract", "Remove"}
ObjectTypes == {"Network", "Line"}

FilterNew(action) == [action |-> action, filters |-> <<>>]

\* Filter::add: the value joins the set kept for (object_type, prop).
FilterAdd(f, t, prop, value) ==
    LET props == IF t \in DOMAIN f.filters THEN f.filters[t] ELSE <<>>
        old   == IF prop \in DOMAIN props THEN props[prop] ELSE {}
        new   == [p \in (DOMAIN props) \cup {prop} |->
                     IF p = prop THEN old \cup {value} ELSE props[p]]
    IN  [f EXCEPT !.filters =
            [u \in (DOMAIN f.filters) \cup {t} |->
                IF u = t THEN new ELSE f.filters[u]]]

\* The Filter built by Filter::new(action) followed by one add per triple.
RECURSIVE FilterOf(_, _)
FilterOf(action, triples) ==
    IF triples = {} THEN FilterNew(action)
    ELSE LET x == CHOOSE y \in triples : TRUE
         IN  FilterAdd(FilterOf(action, triples \ {x}), x[1], x[2], x[3])

(***************************************************************************)
(* Model: the relation lookups (GetCorresponding) and Model::new.          *)
(* A VehicleJourney belongs to one Line (through its route) and has one    *)
(* Calendar (service_id); a Line belongs to one Network.                   *)
(***************************************************************************)
LineById(m, id) == m.lines[GetIdx(m.lines, id) + 1]

\* IdxSet<Network|Line> -> IdxSet<VehicleJourney>
GetCorrespondingVJ(m, t, set_idx) ==
    {i \in 0..(Len(m.vehicle_journeys) - 1) :
        LET vj == m.vehicle_journeys[i + 1]
        IN  IF t = "Network"
            THEN GetIdx(m.networks, LineById(m, vj.line_id).network_id) \in set_idx
            ELSE GetIdx(m.lines, vj.line_id) \in set_idx}

\* IdxSet<Network|Line> -> IdxSet<Calendar>
GetCorrespondingCalendar(m, t, set_idx) ==
    {GetIdx(m.calendars, m.vehicle_journeys[i + 1].service_id) :
        i \in GetCorrespondingVJ(m, t, set_idx)}

\* Model::into_collections
IntoCollections(m) == m

\* Model::new: the validation either accepts the collections as they are
\* or rejects them.
ModelNewOutcomes(c) ==
    {[status |-> "Ok", err |-> "", model |-> <<c>>],
     [status |-> "Err", err |-> "ValidationFailed", model |-> <<>>]}

(***************************************************************************)
(* FilterProcessor::apply, the property match of each object type.         *)
(* Each operator gives the set of outcomes of one iteration of the inner   *)
(* loop: [ok |-> TRUE, ids |-> ...] or [ok |-> FALSE, err |-> ...].        *)
(***************************************************************************)
Resolved(s) == [ok |-> TRUE, ids |-> s, err |-> ""]
Bail(e) == [ok |-> FALSE, ids |-> {}, err |-> e]

\* The match of the Network arm with an empty set where its last arm bails.
ResolveNetworkNoBail(prop, values, coll) ==
    IF prop = "network_id"
    THEN IF \A id \in values : Contains(coll, id)
         THEN {Resolved(values)}
         ELSE {Bail("NotFound")}
    ELSE {Resolved({})}

ResolveNetwork(prop, values, coll) ==
    IF prop = "network_id"
    THEN IF \A id \in values : Contains(coll, id)
         THEN {Resolved(values)}
         ELSE {Bail("NotFound")}
    ELSE {Bail("UnsupportedProperty")}

\* The match of the Line arm with an empty set where its last arm bails.
ResolveLineNoBail(prop, values, coll) ==
    IF prop = "line_code"
    THEN LET found == {coll[i].id : i \in
                        {j \in 1..Len(coll) : UnwrapOr(coll[j].code, "") \in values}}
         IN  IF found = {} THEN {Bail("EmptyMatch")} ELSE {Resolved(found)}
    ELSE {Resolved({})}

ResolveLine(prop, values, coll) ==
    IF prop = "line_code"
    THEN LET found == {coll[i].id : i \in
                        {j \in 1..Len(coll) : UnwrapOr(coll[j].code, "") \in values}}
         IN  IF found = {} THEN {Bail("EmptyMatch")} ELSE {Resolved(found)}
    ELSE {Bail("UnsupportedProperty")}

Resolve(t, prop, values, coll) ==
    IF t = "Network" THEN ResolveNetwork(prop, values, coll)
    ELSE ResolveLine(prop, values, coll)

\* The clone of the model's collection the iteration works on.
CloneCollection(m, t) == IF t = "Network" THEN m.networks ELSE m.lines

(***************************************************************************)
(* FilterProcessor::union                                                  *)
(***************************************************************************)
RetainAction(action, coll, idset) ==
    IF action = "Extract"
    THEN SelectSeq(coll, LAMBDA o : o.id \in idset)
    ELSE SelectSeq(coll, LAMBDA o : o.id \notin idset)

\* set_idx: the old positions of the objects left in the collection.
SetIdx(old, retained) == {GetIdx(old, retained[i].id) : i \in 1..Len(retained)}

\* union with the accumulator overwritten.
UnionUsedOverwrite(used, corresponding) == corresponding

UnionUsed(used, corresponding) == used \cup corresponding

\* The retain acting on the model's networks instead of their clone.
ModelAfterRetainInPlace(m, t, retained) ==
    IF t = "Network" THEN [m EXCEPT !.networks = retained] ELSE m

\* The retain acts on the clone: the model keeps its collections.
ModelAfterRetain(m, t, retained) == m

(***************************************************************************)
(* updated_stop_time_attributes                                            *)
(***************************************************************************)
\* old_vj_idx_to_vj_id of finalize, as a function from old Idx to id.
OldVjIdxToVjId(old_vjs) == [i \in 0..(Len(old_vjs) - 1) |-> old_vjs[i + 1].id]

\* The keys of attributes_map whose vehicle journey has a new Idx.
Remappable(vehicle_journeys, attributes_map, old_idx_to_id) ==
    {k \in DOMAIN attributes_map :
        /\ k[1] \in DOMAIN old_idx_to_id
        /\ Contains(vehicle_journeys, old_idx_to_id[k[1]])}

NewKey(vehicle_journeys, old_idx_to_id, k) ==
    <<GetIdx(vehicle_journeys, old_idx_to_id[k[1]]), k[2]>>

\* The entries of the survivors kept under their old keys.
UpdatedStopTimeAttributesOldIdx(vehicle_journeys, attributes_map, old_idx_to_id) ==
    LET keep == Remappable(vehicle_journeys, attributes_map, old_idx_to_id)
    IN  [k \in keep |-> attributes_map[k]]

UpdatedStopTimeAttributes(vehicle_journeys, attributes_map, old_idx_to_id) ==
    LET keep == Remappable(vehicle_journeys, attributes_map, old_idx_to_id)
        new  == {NewKey(vehicle_journeys, old_idx_to_id, k) : k \in keep}
    IN  [n \in new |->
            attributes_map[CHOOSE k \in keep :
                NewKey(vehicle_journeys, old_idx_to_id, k) = n]]

(***************************************************************************)
(* FilterProcessor::finalize                                               *)
(***************************************************************************)
FinalizeCalendars(c, old_calendars, used) == RetainIdxs(c.calendars, old_calendars, used)

\* finalize without the retain of the vehicle journeys.
FinalizeVehicleJourneysAll(c, old_vjs, used) == c.vehicle_journeys

FinalizeVehicleJourneys(c, old_vjs, used) == RetainIdxs(c.vehicle_journeys, old_vjs, used)

FinalizeCollections(m, old_calendars, old_vjs, cal_used, vj_used) ==
    LET c    == IntoCollections(m)
        map  == OldVjIdxToVjId(old_vjs)
        cals == FinalizeCalendars(c, old_calendars, cal_used)
        vs   == FinalizeVehicleJourneys(c, old_vjs, vj_used)
    IN  [c EXCEPT
            !.calendars = cals,
            !.vehicle_journeys = vs,
            !.stop_time_ids = UpdatedStopTimeAttributes(vs, c.stop_time_ids, map),
            !.stop_time_headsigns = UpdatedStopTimeAttributes(vs, c.stop_time_headsigns, map),
            !.stop_time_comments = UpdatedStopTimeAttributes(vs, c.stop_time_comments, map)]

\* The guard reading the calendars of the model, not the compacted ones.
NoServiceLeftInModel(c, m) == Len(m.calendars) = 0

\* The guard of the last bail of finalize.
NoServiceLeft(c, m) == Len(c.calendars) = 0

(***************************************************************************)
(* The models and filters of the checked instances.                        *)
(***************************************************************************)
NetworkIds == <<"N1", "N2">>
CalendarIds == <<"C1", "C2">>
VJIds == <<"VJ1", "VJ2", "VJ3", "VJ4", "VJ5">>
Seqs == 1..MaxSeq

Networks == [i \in 1..Len(NetworkIds) |-> [id |-> NetworkIds[i]]]
Calendars == [i \in 1..Len(CalendarIds) |-> [id |-> CalendarIds[i]]]

\* Two lines: L1 of N1, with or without a code; L2 of either network, with
\* the code of L1 or another.
LineSeqs ==
    {<<[id |-> "L1", network_id |-> "N1", code |-> c1],
       [id |-> "L2", network_id |-> n2, code |-> c2]>> :
        c1 \in {None, Some("A")}, n2 \in {"N1", "N2"}, c2 \in {Some("A"), Some("B")}}

\* n vehicle journeys, each on a line and with a calendar.
VJSeqs(n) ==
    {[i \in 1..n |-> [id |-> VJIds[i], line_id |-> f[i][1], service_id |-> f[i][2]]] :
        f \in [1..n -> {"L1", "L2"} \X {"C1", "C2"}]}

AttrKeys(n) == (0..(n - 1)) \X Seqs

\* An attribute map over the given keys; every value names its map, the
\* vehicle journey it belongs to and its stop sequence.
AttrMap(kind, vehicle_journeys, keys) ==
    [k \in keys |-> <<kind, vehicle_journeys[k[1] + 1].id, k[2]>>]

MakeModel(ls, vs, kIds, kHeadsigns, kComments) ==
    [networks |-> Networks,
     lines |-> ls,
     calendars |-> Calendars,
     vehicle_journeys |-> vs,
     stop_time_ids |-> AttrMap("id", vs, kIds),
     stop_time_headsigns |-> AttrMap("headsign", vs, kHeadsigns),
     stop_time_comments |-> AttrMap("comment", vs, kComments)]

\* The triples Filter::add is called with.
Triples ==
    ({"Network"} \X {"network_id"} \X {"N1", "N2", "NX"})
    \cup {<<"Network", "bogus", "x">>}
    \cup ({"Line"} \X {"line_code"} \X {"A", "B", ""})
    \cup {<<"Line", "bogus", "x">>}

MaxTriples == 3

Filters ==
    {FilterOf(a, T) : a \in Actions,
                      T \in {U \in SUBSET Triples : Cardinality(U) <= MaxTriples}}

Pending == [status |-> "pending", err |-> "", model |-> <<>>]

InitLocals ==
    /\ input_model = model
    /\ pc = "filter"
    /\ calendars = <<>>
    /\ vjs = <<>>
    /\ calendars_used = {}
    /\ vjs_used = {}
    /\ todo_types = {}
    /\ object_type = ""
    /\ todo_props = {}
    /\ collection = <<>>
    /\ ids = {}
    /\ collections = <<>>
    /\ result = Pending

Init ==
    /\ model \in {MakeModel(ls, vs, AttrKeys(MaxVJ), {}, {k \in AttrKeys(MaxVJ) : k[2] = 1}) :
                    ls \in LineSeqs, vs \in VJSeqs(MaxVJ)}
    /\ filter \in Filters
    /\ InitLocals

\* The instances of the attribute maps: every set of keys for one map, its
\* complement for the second, every key for the third.
InitAttr ==
    /\ \E n \in 1..MaxAttrVJ : \E K \in SUBSET AttrKeys(n) :
          model = MakeModel(<<[id |-> "L1", network_id |-> "N1", code |-> Some("A")],
                              [id |-> "L2", network_id |-> "N2", code |-> Some("B")]>>,
                            [i \in 1..n |-> [id |-> VJIds[i],
                                             line_id |-> IF i % 2 = 1 THEN "L1" ELSE "L2",
                                             service_id |-> IF i <= 2 THEN "C1" ELSE "C2"]],
                            K, AttrKeys(n) \ K, AttrKeys(n))
    /\ filter \in {FilterOf(a, T) : a \in Actions,
                                    T \in {U \in SUBSET Triples : Cardinality(U) <= 1}}
    /\ InitLocals

(***************************************************************************)
(* filter(): the processor takes clones of the calendars and of the        *)
(* vehicle journeys, then apply starts its loop over filter.filters.       *)
(***************************************************************************)
FilterCall ==
    /\ pc = "filter"
    /\ calendars' = model.calendars
    /\ vjs' = model.vehicle_journeys
    /\ calendars_used' = {}
    /\ vjs_used' = {}
    /\ todo_types' = DOMAIN filter.filters
    /\ pc' = "apply"
    /\ UNCHANGED <<model, filter, input_model, object_type, todo_props,
                   collection, ids, collections, result>>

\* apply: the next (object_type, prop_values) of filter.filters.
NextObjectType ==
    /\ pc = "apply"
    /\ \E t \in todo_types :
          /\ object_type' = t
          /\ todo_types' = todo_types \ {t}
          /\ collection' = CloneCollection(model, t)
          /\ ids' = {}
          /\ todo_props' = DOMAIN filter.filters[t]
    /\ pc' = "props"
    /\ UNCHANGED <<model, filter, input_model, calendars, vjs, calendars_used,
                   vjs_used, collections, result>>

\* apply: the next (prop, values) of prop_values matches and sets ids.
PropertyResolved ==
    /\ pc = "props"
    /\ \E p \in todo_props :
          \E r \in Resolve(object_type, p, filter.filters[object_type][p], collection) :
             /\ r.ok
             /\ ids' = r.ids
             /\ todo_props' = todo_props \ {p}
    /\ UNCHANGED <<model, filter, input_model, pc, calendars, vjs, calendars_used,
                   vjs_used, todo_types, object_type, collection, collections,
                   result>>

\* apply: the next (prop, values) of prop_values bails out of apply.
PropertyFails ==
    /\ pc = "props"
    /\ \E p \in todo_props :
          \E r \in Resolve(object_type, p, filter.filters[object_type][p], collection) :
             /\ ~r.ok
             /\ result' = [status |-> "Err", err |-> r.err, model |-> <<>>]
             /\ todo_props' = todo_props \ {p}
    /\ pc' = "done"
    /\ UNCHANGED <<model, filter, input_model, calendars, vjs, calendars_used,
                   vjs_used, todo_types, object_type, collection, ids,
                   collections>>

\* apply: the inner loop is over, self.union(model, &filter.action, ...).
Union ==
    /\ pc = "props"
    /\ todo_props = {}
    /\ LET retained == RetainAction(filter.action, collection, ids)
           set_idx  == SetIdx(collection, retained)
       IN  /\ collection' = retained
           /\ calendars_used' =
                 UnionUsed(calendars_used,
                           GetCorrespondingCalendar(model, object_type, set_idx))
           /\ vjs_used' =
                 UnionUsed(vjs_used, GetCorrespondingVJ(model, object_type, set_idx))
           /\ model' = ModelAfterRetain(model, object_type, retained)
    /\ pc' = "apply"
    /\ UNCHANGED <<filter, input_model, calendars, vjs, todo_types, object_type,
                   todo_props, ids, collections, result>>

\* finalize, up to its bail: the compacted collections have a calendar.
FinalizeCompacted ==
    /\ pc = "apply"
    /\ todo_types = {}
    /\ LET c == FinalizeCollections(model, calendars, vjs, calendars_used, vjs_used)
       IN  /\ ~NoServiceLeft(c, model)
           /\ collections' = <<c>>
    /\ pc' = "model_new"
    /\ UNCHANGED <<model, filter, input_model, calendars, vjs, calendars_used,
                   vjs_used, todo_types, object_type, todo_props, collection,
                   ids, result>>

\* finalize: "the data does not contain services anymore."
FinalizeEmpty ==
    /\ pc = "apply"
    /\ todo_types = {}
    /\ LET c == FinalizeCollections(model, calendars, vjs, calendars_used, vjs_used)
       IN  /\ NoServiceLeft(c, model)
           /\ collections' = <<c>>
    /\ result' = [status |-> "Err", err |-> "EmptyModel", model |-> <<>>]
    /\ pc' = "done"
    /\ UNCHANGED <<model, filter, input_model, calendars, vjs, calendars_used,
                   vjs_used, todo_types, object_type, todo_props, collection,
                   ids>>

\* finalize: Ok(Model::new(collections)?)
ModelNew ==
    /\ pc = "model_new"
    /\ result' \in ModelNewOutcomes(collections[1])
    /\ pc' = "done"
    /\ UNCHANGED <<model, filter, input_model, calendars, vjs, calendars_used,
                   vjs_used, todo_types, object_type, todo_props, collection,
                   ids, collections>>

Next ==
    \/ FilterCall
    \/ NextObjectType
    \/ PropertyResolved
    \/ PropertyFails
    \/ Union
    \/ FinalizeCompacted
    \/ FinalizeEmpty
    \/ ModelNew

Spec == Init /\ [][Next]_vars

SpecAttr == InitAttr /\ [][Next]_vars

(***************************************************************************)
(* What a filter selects, stated on the input model and the Filter alone.  *)
(***************************************************************************)
Done == pc = "done"
Succeeded == pc = "done" /\ result.status = "Ok"
Failed == pc = "done" /\ result.status = "Err"
Returned == result.model[1]
Compacted == collections /= <<>>

PropErrs == {"NotFound", "UnsupportedProperty", "EmptyMatch"}
Recognised(t) == IF t = "Network" THEN "network_id" ELSE "line_code"
TypesOf(f) == DOMAIN f.filters
PropsOf(f, t) == DOMAIN f.filters[t]
InputCollection(t) == IF t = "Network" THEN input_model.networks ELSE input_model.lines

\* The identifiers the recognised property of object type t names.
Selected(t) ==
    LET values == filter.filters[t][Recognised(t)]
    IN  IF t = "Network" THEN values
        ELSE {input_model.lines[i].id : i \in
                {j \in 1..Len(input_model.lines) :
                    UnwrapOr(input_model.lines[j].code, "") \in values}}

\* The entities of object type t the action leaves in their collection.
Survivors(t) ==
    IF filter.action = "Extract" THEN Ids(InputCollection(t)) \cap Selected(t)
    ELSE Ids(InputCollection(t)) \ Selected(t)

SurvivorIdxs(t) == {GetIdx(InputCollection(t), id) : id \in Survivors(t)}

ReachedCalendars(t) ==
    {input_model.calendars[i + 1].id :
        i \in GetCorrespondingCalendar(input_model, t, SurvivorIdxs(t))}

ReachedVJs(t) ==
    {input_model.vehicle_journeys[i + 1].id :
        i \in GetCorrespondingVJ(input_model, t, SurvivorIdxs(t))}

NetworkOfVJ(vj) == LineById(input_model, vj.line_id).network_id

\* The calendars and vehicle journeys of one network, in the input model.
VJsOfNetwork(n) ==
    {input_model.vehicle_journeys[i].id : i \in
        {j \in 1..Len(input_model.vehicle_journeys) :
            NetworkOfVJ(input_model.vehicle_journeys[j]) = n}}
CalendarsOfNetwork(n) ==
    {input_model.vehicle_journeys[i].service_id : i \in
        {j \in 1..Len(input_model.vehicle_journeys) :
            NetworkOfVJ(input_model.vehicle_journeys[j]) = n}}
LinesOfNetwork(n) ==
    {input_model.lines[i].id : i \in
        {j \in 1..Len(input_model.lines) : input_model.lines[j].network_id = n}}

\* The filter is the single predicate network_id in {o}, with this action.
SingleNetwork(action, o) ==
    /\ filter.action = action
    /\ TypesOf(filter) = {"Network"}
    /\ PropsOf(filter, "Network") = {"network_id"}
    /\ filter.filters["Network"]["network_id"] = {o}

(***************************************************************************)
(* C1: when apply succeeds, the calendars (resp. vehicle journeys) of the  *)
(* returned model are exactly the union, over the object types of the      *)
(* filter, of those the relation lookup reaches from the type's surviving  *)
(* entities; with a Network and a Line predicate whose reached sets are    *)
(* disjoint and non-empty, more is retained than either reaches.           *)
(***************************************************************************)
DisjointReach ==
    /\ TypesOf(filter) = ObjectTypes
    /\ ReachedCalendars("Network") /= {}
    /\ ReachedCalendars("Line") /= {}
    /\ ReachedCalendars("Network") \cap ReachedCalendars("Line") = {}

C1_RetainedIsUnion ==
    Succeeded =>
        /\ Ids(Returned.calendars) =
              UNION {ReachedCalendars(t) : t \in TypesOf(filter)}
        /\ Ids(Returned.vehicle_journeys) =
              UNION {ReachedVJs(t) : t \in TypesOf(filter)}
        /\ DisjointReach =>
              /\ Cardinality(Ids(Returned.calendars)) >
                    Cardinality(ReachedCalendars("Network"))
              /\ Cardinality(Ids(Returned.calendars)) >
                    Cardinality(ReachedCalendars("Line"))

C1_Witness == Succeeded /\ DisjointReach

(***************************************************************************)
(* C2: Extract with the single predicate network_id in {O1}, on a model    *)
(* with networks O1 and O2, returns a model whose networks are exactly     *)
(* {O1}, whose lines, calendars and vehicle journeys are all reachable     *)
(* from O1, and where nothing reachable only from O2 remains.              *)
(***************************************************************************)
C2_ExtractOneOperator ==
    \A o \in Ids(input_model.networks) :
        (Succeeded /\ SingleNetwork("Extract", o)) =>
            /\ Ids(Returned.networks) = {o}
            /\ Ids(Returned.lines) \subseteq LinesOfNetwork(o)
            /\ Ids(Returned.calendars) \subseteq CalendarsOfNetwork(o)
            /\ Ids(Returned.vehicle_journeys) \subseteq VJsOfNetwork(o)

\* The part of C2 that is about calendars and vehicle journeys only.
C2_CascadeOnly ==
    \A o \in Ids(input_model.networks) :
        (Succeeded /\ SingleNetwork("Extract", o)) =>
            /\ Ids(Returned.calendars) = CalendarsOfNetwork(o)
            /\ Ids(Returned.vehicle_journeys) = VJsOfNetwork(o)

(***************************************************************************)
(* C3: Remove with the single predicate network_id in {O1} returns a model *)
(* whose networks are all but O1; the calendars and vehicle journeys       *)
(* reachable only from O1 are dropped, those reachable from another        *)
(* network are kept.                                                       *)
(***************************************************************************)
OtherNetworks(o) == Ids(input_model.networks) \ {o}

C3_RemoveOneOperator ==
    \A o \in Ids(input_model.networks) :
        (Succeeded /\ SingleNetwork("Remove", o)) =>
            /\ Ids(Returned.networks) = OtherNetworks(o)
            /\ Ids(Returned.calendars) =
                  UNION {CalendarsOfNetwork(n) : n \in OtherNetworks(o)}
            /\ Ids(Returned.vehicle_journeys) =
                  UNION {VJsOfNetwork(n) : n \in OtherNetworks(o)}

\* The part of C3 that is about calendars and vehicle journeys only.
C3_CascadeOnly ==
    \A o \in Ids(input_model.networks) :
        (Succeeded /\ SingleNetwork("Remove", o)) =>
            /\ Ids(Returned.calendars) =
                  UNION {CalendarsOfNetwork(n) : n \in OtherNetworks(o)}
            /\ Ids(Returned.vehicle_journeys) =
                  UNION {VJsOfNetwork(n) : n \in OtherNetworks(o)}

(***************************************************************************)
(* C5: when apply succeeds, the returned model holds only the selected     *)
(* entities, and no retained vehicle journey belongs to a network or a     *)
(* line the action dropped from its collection.                            *)
(***************************************************************************)
C5_NoReferenceToDropped ==
    Succeeded =>
        /\ "Network" \in TypesOf(filter) =>
              /\ Ids(Returned.networks) = Survivors("Network")
              /\ \A i \in 1..Len(Returned.vehicle_journeys) :
                    NetworkOfVJ(Returned.vehicle_journeys[i]) \in Survivors("Network")
        /\ "Line" \in TypesOf(filter) =>
              /\ Ids(Returned.lines) = Survivors("Line")
              /\ \A i \in 1..Len(Returned.vehicle_journeys) :
                    Returned.vehicle_journeys[i].line_id \in Survivors("Line")

\* C5 without the network and line collections: only the vehicle journeys.
C5_VJsOfSurvivorsOnly ==
    Succeeded =>
        \A i \in 1..Len(Returned.vehicle_journeys) :
            /\ "Network" \in TypesOf(filter) =>
                  NetworkOfVJ(Returned.vehicle_journeys[i]) \in Survivors("Network")
            /\ "Line" \in TypesOf(filter) =>
                  Returned.vehicle_journeys[i].line_id \in Survivors("Line")

(***************************************************************************)
(* C4: each of the three attribute maps, after filtering, holds exactly    *)
(* the entries of the surviving vehicle journeys, each at the new position *)
(* of its vehicle journey with the same stop sequence and the same value;  *)
(* no key names a position outside the filtered collection.                *)
(***************************************************************************)
\* A map read through the identifiers of the collection its keys point into.
ById(attributes_map, vehicle_journeys) ==
    {<<vehicle_journeys[k[1] + 1].id, k[2], attributes_map[k]>> :
        k \in DOMAIN attributes_map}

RoundTrip(new_map, old_map) ==
    /\ \A k \in DOMAIN new_map :
          k[1] \in 0..(Len(collections[1].vehicle_journeys) - 1)
    /\ ById(new_map, collections[1].vehicle_journeys) =
          {e \in ById(old_map, input_model.vehicle_journeys) :
              e[1] \in Ids(collections[1].vehicle_journeys)}

C4_AttributeRoundTrip ==
    Compacted =>
        /\ RoundTrip(collections[1].stop_time_ids, input_model.stop_time_ids)
        /\ RoundTrip(collections[1].stop_time_headsigns,
                     input_model.stop_time_headsigns)
        /\ RoundTrip(collections[1].stop_time_comments,
                     input_model.stop_time_comments)

\* A vehicle journey was dropped and a later one, with entries in two of the
\* maps, moved to a new position; the dropped one had an entry too.
C4_Witness ==
    /\ Succeeded
    /\ \E i \in 1..Len(Returned.vehicle_journeys) :
          LET id == Returned.vehicle_journeys[i].id
              old == GetIdx(input_model.vehicle_journeys, id)
          IN  /\ old /= i - 1
              /\ \E q \in Seqs : <<i - 1, q>> \in DOMAIN Returned.stop_time_ids
              /\ \E q \in Seqs : <<i - 1, q>> \in DOMAIN Returned.stop_time_comments
    /\ \E k \in DOMAIN input_model.stop_time_headsigns :
          input_model.vehicle_journeys[k[1] + 1].id \notin Ids(Returned.vehicle_journeys)

(***************************************************************************)
(* C6: an empty calendar collection after compaction makes apply fail with *)
(* EmptyModel; a model apply returns has a calendar.                       *)
(***************************************************************************)
C6_EmptyModel ==
    /\ (Compacted /\ Len(collections[1].calendars) = 0) =>
          (Failed /\ result.err = "EmptyModel")
    /\ Succeeded => Len(Returned.calendars) > 0

\* A predicate resolved and was cascaded, and nothing was left.
C6_Witness ==
    /\ Failed
    /\ result.err = "EmptyModel"
    /\ TypesOf(filter) /= {}
    /\ Len(collections[1].calendars) = 0

(***************************************************************************)
(* C7: when apply fails, no model is returned and the input model is what  *)
(* it was before the call, also when an object type had been resolved and  *)
(* cascaded before the failure.                                            *)
(***************************************************************************)
C7_FailureLeavesInput ==
    Failed => (result.model = <<>> /\ model = input_model)

\* The second object type failed after the first had been cascaded.
C7_Witness ==
    /\ Failed
    /\ result.err \in PropErrs
    /\ TypesOf(filter) = ObjectTypes
    /\ todo_types = {}
    /\ vjs_used /= {}

(***************************************************************************)
(* C8: a filter with a property that its object type does not know.        *)
(***************************************************************************)
HasUnsupported ==
    \E t \in TypesOf(filter) : PropsOf(filter, t) \ {Recognised(t)} /= {}

\* Every recognised property of the filter matches on the input model.
RecognisedResolve ==
    \A t \in TypesOf(filter) :
        Recognised(t) \in PropsOf(filter, t) =>
            IF t = "Network" THEN Selected(t) \subseteq Ids(input_model.networks)
            ELSE Selected(t) /= {}

\* C8 as claimed: with an unknown property, apply fails with
\* UnsupportedProperty, whatever else the filter holds.
C8_AlwaysUnsupported ==
    (Done /\ HasUnsupported) =>
        (result.status = "Err" /\ result.err = "UnsupportedProperty")

\* C8 as amended: with an unknown property, apply fails in the property
\* loop; the failure is UnsupportedProperty when every recognised property
\* of the filter matches, and otherwise NotFound or EmptyMatch may come first.
C8_UnsupportedFails ==
    (Done /\ HasUnsupported) =>
        /\ result.status = "Err"
        /\ result.err \in PropErrs
        /\ RecognisedResolve => result.err = "UnsupportedProperty"

\* The unknown property was met after another object type had been cascaded.
C8_Witness ==
    /\ Failed
    /\ HasUnsupported
    /\ result.err = "UnsupportedProperty"
    /\ TypesOf(filter) = ObjectTypes
    /\ todo_types = {}

(***************************************************************************)
(* C9: a filter with more than one property for one object type.           *)
(***************************************************************************)
MultiProp(t) == t \in TypesOf(filter) /\ Cardinality(PropsOf(filter, t)) > 1

\* The object type was cascaded: apply went past it.
Cascaded(t) ==
    /\ t \in TypesOf(filter) \ todo_types
    /\ (t = object_type => result.err \notin PropErrs)

C10_CalendarsMatchVJs ==
    Compacted =>
        LET c == collections[1]
        IN  /\ \A i \in 1..Len(c.vehicle_journeys) :
                  c.vehicle_journeys[i].service_id \in Ids(c.calendars)
            /\ \A j \in 1..Len(c.calendars) :
                  \E i \in 1..Len(c.vehicle_journeys) :
                      c.vehicle_journeys[i].service_id = c.calendars[j].id

\* Something was dropped and something was kept.
C10_Witness ==
    /\ Compacted
    /\ Len(collections[1].calendars) = 1
    /\ Len(collections[1].vehicle_journeys) >= 1
    /\ Len(collections[1].vehicle_journeys) < Len(input_model.vehicle_journeys)

====
